---- MODULE Spec2Model ----
(***************************************************************************)
(* Model of tp_blockchain_zeghmoum.py: a single-node blockchain with a    *)
(* brute-force proof-of-work, a validation scan and a tamper operation.   *)
(*                                                                         *)
(* Strings of hexadecimal characters are sequences over 0..15; the        *)
(* character '0' is the digit 0.  SHA-256 is modelled by a deterministic  *)
(* digest of HashLen hex characters that has no collision between two     *)
(* serialisations differing only in the data field.                       *)
(***************************************************************************)
EXTENDS Integers, Sequences, FiniteSets, TLC

\* ---------------------------------------------------------------- bounds
HashLen == 3          \* hex characters of a digest (64 in SHA-256)
MaxDifficulty == 2    \* difficulties the constructor is called with
MaxChain == 3         \* blocks in the chain
MaxNonce == 40        \* nonces the mining loop is followed through
MaxTime == 2          \* distinct readings of the clock (timestamps)
MaxElapsed == 0       \* largest measured mining duration

Modulus == 16 ^ HashLen

GenesisData == "Genesis Block"
Payloads == {"Alice pays 5 BTC to Bob", "This was hacked!"}
Timestamps == 1..MaxTime
Elapsed == 0..MaxElapsed
NoBlock == -1

\* ------------------------------------------------------------ hex strings
RECURSIVE HexVal(_)
\* the number a hex string denotes
HexVal(s) ==
    IF Len(s) = 0 THEN 0
    ELSE 16 * HexVal(SubSeq(s, 1, Len(s) - 1)) + s[Len(s)]

\* the code of a string field inside the serialisation: distinct strings
\* ("0" and "00") get distinct codes
StrCode(s) == (16 ^ Len(s)) + HexVal(s)

\* the code of a payload inside the serialisation
DataCode(d) ==
    CASE d = "Genesis Block" -> 1
      [] d = "Alice pays 5 BTC to Bob" -> 2
      [] d = "This was hacked!" -> 3

\* hexdigest(): HashLen lowercase hex characters, most significant first
hexdigest(n) == [k \in 1..HashLen |-> (n \div (16 ^ (HashLen - k))) % 16]

\* '0' * n
Zeros(n) == [k \in 1..n |-> 0]

\* str.startswith
startswith(s, prefix) ==
    /\ Len(prefix) <= Len(s)
    /\ SubSeq(s, 1, Len(prefix)) = prefix

\* ------------------------------------------------------------------ Block
\* json.dumps(..., sort_keys=True): the fields in key order
\* data, index, nonce, previous_hash, timestamp
block_string(b) ==
    <<DataCode(b.data), b.index, b.nonce, StrCode(b.previous_hash), b.timestamp>>

sha256(s) ==
    hexdigest((365 * s[1] + 223 * s[2] + 121 * s[3] + 13 * s[4] + 241 * s[5] + 145) % Modulus)

compute_hash(b) == sha256(block_string(b))

\* Block(index, timestamp, data, previous_hash): nonce 0, provisional hash
Block(index, timestamp, data, previous_hash) ==
    LET b == [index |-> index, timestamp |-> timestamp, data |-> data,
              previous_hash |-> previous_hash, nonce |-> 0, hash |-> <<>>]
    IN  [b EXCEPT !.hash = compute_hash(b)]

\* ------------------------------------------------------------- Blockchain
RECURSIVE mine_NoHashStore(_, _, _)
\* mutant: the winning digest is not written to block.hash
mine_NoHashStore(block, prefix, n) ==
    LET b == [block EXCEPT !.nonce = n]
        computed_hash == compute_hash(b)
    IN  IF startswith(computed_hash, prefix)
        THEN [found |-> TRUE, block |-> b, nonce |-> n]
        ELSE IF n >= MaxNonce
             THEN [found |-> FALSE, block |-> b, nonce |-> n]
             ELSE mine_NoHashStore(block, prefix, n + 1)

RECURSIVE mine_Step2(_, _, _)
\* mutant: the nonce advances by 2
mine_Step2(block, prefix, n) ==
    LET b == [block EXCEPT !.nonce = n]
        computed_hash == compute_hash(b)
    IN  IF startswith(computed_hash, prefix)
        THEN [found |-> TRUE, block |-> [b EXCEPT !.hash = computed_hash], nonce |-> n]
        ELSE IF n >= MaxNonce
             THEN [found |-> FALSE, block |-> b, nonce |-> n]
             ELSE mine_Step2(block, prefix, n + 2)

RECURSIVE mine(_, _, _)
\* the loop of proof_of_work from nonce n on; found = FALSE when the loop
\* is still running after MaxNonce
mine(block, prefix, n) ==
    LET b == [block EXCEPT !.nonce = n]
        computed_hash == compute_hash(b)
    IN  IF startswith(computed_hash, prefix)
        THEN [found |-> TRUE, block |-> [b EXCEPT !.hash = computed_hash], nonce |-> n]
        ELSE IF n >= MaxNonce
             THEN [found |-> FALSE, block |-> b, nonce |-> n]
             ELSE mine(block, prefix, n + 1)

\* mutant: the prefix is one '0' short
proof_of_work_Weaker(block, difficulty) == mine(block, Zeros(difficulty - 1), 0)

\* mutant: the search resumes at the nonce the block already holds
proof_of_work_Resume(block, difficulty) == mine(block, Zeros(difficulty), block.nonce)

proof_of_work(block, difficulty) == mine(block, Zeros(difficulty), 0)

\* mutant: chain[0] instead of chain[-1]
latest_block_First(chain) == chain[1]

latest_block(chain) == chain[Len(chain)]

Verdict(ok, i, msg) == [ok |-> ok, block |-> i, msg |-> msg]

RECURSIVE scan_HashFirst(_, _, _)
\* mutant: hash consistency is checked before the link
scan_HashFirst(chain, prefix, i) ==
    IF i > Len(chain)
    THEN LET genesis == chain[1]
         IN  IF ~startswith(genesis.hash, prefix)
             THEN Verdict(FALSE, NoBlock, "Genesis block does not meet difficulty.")
             ELSE IF compute_hash(genesis) # genesis.hash
                  THEN Verdict(FALSE, NoBlock, "Genesis block hash mismatch.")
                  ELSE Verdict(TRUE, NoBlock, "Chain is valid.")
    ELSE LET curr == chain[i]
             prev == chain[i - 1]
         IN  IF compute_hash(curr) # curr.hash
             THEN Verdict(FALSE, i - 1, "Hash tampering detected.")
             ELSE IF curr.previous_hash # prev.hash
                  THEN Verdict(FALSE, i - 1, "previous_hash does not match (chain broken).")
                  ELSE IF ~startswith(curr.hash, prefix)
                       THEN Verdict(FALSE, i - 1, "Difficulty rule violated.")
                       ELSE scan_HashFirst(chain, prefix, i + 1)

RECURSIVE scan(_, _, _)
\* the for loop of is_chain_valid from position i on (positions are 1-based
\* here, block numbers 0-based as in the messages); falls through to the
\* genesis checks
scan(chain, prefix, i) ==
    IF i > Len(chain)
    THEN LET genesis == chain[1]
         IN  IF ~startswith(genesis.hash, prefix)
             THEN Verdict(FALSE, NoBlock, "Genesis block does not meet difficulty.")
             ELSE IF compute_hash(genesis) # genesis.hash
                  THEN Verdict(FALSE, NoBlock, "Genesis block hash mismatch.")
                  ELSE Verdict(TRUE, NoBlock, "Chain is valid.")
    ELSE LET curr == chain[i]
             prev == chain[i - 1]
         IN  IF curr.previous_hash # prev.hash
             THEN Verdict(FALSE, i - 1, "previous_hash does not match (chain broken).")
             ELSE IF compute_hash(curr) # curr.hash
                  THEN Verdict(FALSE, i - 1, "Hash tampering detected.")
                  ELSE IF ~startswith(curr.hash, prefix)
                       THEN Verdict(FALSE, i - 1, "Difficulty rule violated.")
                       ELSE scan(chain, prefix, i + 1)

\* mutant: the prefix is one '0' too long
is_chain_valid_Stricter(chain, difficulty) == scan(chain, Zeros(difficulty + 1), 2)

is_chain_valid(chain, difficulty) == scan(chain, Zeros(difficulty), 2)

\* ------------------------------------------------------------------ state
VARIABLES
    difficulty,     \* Blockchain.difficulty
    chain,          \* Blockchain.chain
    mining_times,   \* Blockchain.mining_times
    nonce_counts,   \* Blockchain.nonce_counts
    ret,            \* the last call and what it returned or raised
    tampered,       \* history: block numbers tamper_block has written to
    adds,           \* history: add_block calls that have returned
    mining          \* <<the block proof_of_work is searching a nonce for>>, or <<>>

vars == <<difficulty, chain, mining_times, nonce_counts, ret, tampered, adds, mining>>

\* Blockchain(difficulty): the state once create_genesis_block has returned
Init ==
    \E d \in 1..MaxDifficulty, ts \in Timestamps, t \in Elapsed :
        LET genesis == Block(0, ts, GenesisData, <<0>>)
            mined == proof_of_work(genesis, d)
        IN  /\ mined.found
            /\ difficulty = d
            /\ chain = <<mined.block>>
            /\ mining_times = <<t>>
            /\ nonce_counts = <<mined.nonce>>
            /\ ret = [op |-> "Blockchain", val |-> "None"]
            /\ tampered = {}
            /\ adds = 0
            /\ mining = <<>>

\* mutant: the new block takes the index of the last block
add_block_SameIndex(data, ts, t) ==
    LET prev == latest_block(chain)
        new_block == Block(prev.index, ts, data, prev.hash)
        mined == proof_of_work(new_block, difficulty)
    IN  /\ Len(chain) < MaxChain
        /\ mined.found
        /\ chain' = Append(chain, mined.block)
        /\ mining_times' = Append(mining_times, t)
        /\ nonce_counts' = Append(nonce_counts, mined.nonce)
        /\ ret' = [op |-> "add_block", val |-> mined.block]
        /\ adds' = adds + 1
        /\ UNCHANGED <<difficulty, tampered, mining>>

\* mutant: the last block's hash is re-derived before the new block links to it
add_block_RehashPrev(data, ts, t) ==
    LET prev == [latest_block(chain) EXCEPT !.hash = compute_hash(latest_block(chain))]
        new_block == Block(prev.index + 1, ts, data, prev.hash)
        mined == proof_of_work(new_block, difficulty)
    IN  /\ Len(chain) < MaxChain
        /\ mined.found
        /\ chain' = Append([chain EXCEPT ![Len(chain)] = prev], mined.block)
        /\ mining_times' = Append(mining_times, t)
        /\ nonce_counts' = Append(nonce_counts, mined.nonce)
        /\ ret' = [op |-> "add_block", val |-> mined.block]
        /\ adds' = adds + 1
        /\ UNCHANGED <<difficulty, tampered, mining>>

\* mutant: nonce_counts records the number of attempts
add_block_Attempts(data, ts, t) ==
    LET prev == latest_block(chain)
        new_block == Block(prev.index + 1, ts, data, prev.hash)
        mined == proof_of_work(new_block, difficulty)
    IN  /\ Len(chain) < MaxChain
        /\ mined.found
        /\ chain' = Append(chain, mined.block)
        /\ mining_times' = Append(mining_times, t)
        /\ nonce_counts' = Append(nonce_counts, mined.nonce + 1)
        /\ ret' = [op |-> "add_block", val |-> mined.block]
        /\ adds' = adds + 1
        /\ UNCHANGED <<difficulty, tampered, mining>>

add_block(data, ts, t) ==
    LET prev == latest_block(chain)
        new_block == Block(prev.index + 1, ts, data, prev.hash)
        mined == proof_of_work(new_block, difficulty)
    IN  /\ Len(chain) < MaxChain
        /\ mined.found
        /\ chain' = Append(chain, mined.block)
        /\ mining_times' = Append(mining_times, t)
        /\ nonce_counts' = Append(nonce_counts, mined.nonce)
        /\ ret' = [op |-> "add_block", val |-> mined.block]
        /\ adds' = adds + 1
        /\ UNCHANGED <<difficulty, tampered, mining>>

\* mutant: the hash is recomputed after the write
tamper_block_Rehash(index, new_data) ==
    IF index < 0 \/ index >= Len(chain)
    THEN /\ ret' = [op |-> "tamper_block", val |-> "IndexError"]
         /\ UNCHANGED <<difficulty, chain, mining_times, nonce_counts, tampered, adds, mining>>
    ELSE LET written == [chain[index + 1] EXCEPT !.data = new_data]
         IN  /\ chain' = [chain EXCEPT ![index + 1] =
                             [written EXCEPT !.hash = compute_hash(written)]]
             /\ tampered' = tampered \cup {index}
             /\ ret' = [op |-> "tamper_block", val |-> "None"]
             /\ UNCHANGED <<difficulty, mining_times, nonce_counts, adds, mining>>

\* mutant: no check for a negative index, which then counts from the end
tamper_block_NoNegCheck(index, new_data) ==
    IF index >= Len(chain)
    THEN /\ ret' = [op |-> "tamper_block", val |-> "IndexError"]
         /\ UNCHANGED <<difficulty, chain, mining_times, nonce_counts, tampered, adds, mining>>
    ELSE LET pos == IF index < 0 THEN Len(chain) + index + 1 ELSE index + 1
         IN  /\ chain' = [chain EXCEPT ![pos].data = new_data]
             /\ tampered' = tampered \cup {pos - 1}
             /\ ret' = [op |-> "tamper_block", val |-> "None"]
             /\ UNCHANGED <<difficulty, mining_times, nonce_counts, adds, mining>>

tamper_block(index, new_data) ==
    IF index < 0 \/ index >= Len(chain)
    THEN /\ ret' = [op |-> "tamper_block", val |-> "IndexError"]
         /\ UNCHANGED <<difficulty, chain, mining_times, nonce_counts, tampered, adds, mining>>
    ELSE /\ chain' = [chain EXCEPT ![index + 1].data = new_data]
         /\ tampered' = tampered \cup {index}
         /\ ret' = [op |-> "tamper_block", val |-> "None"]
         /\ UNCHANGED <<difficulty, mining_times, nonce_counts, adds, mining>>

\* mutant: a failed validation re-derives every stored hash
validate_Repair ==
    LET v == is_chain_valid(chain, difficulty)
    IN  /\ ret' = [op |-> "is_chain_valid", val |-> v]
        /\ chain' = IF v.ok THEN chain
                    ELSE [i \in 1..Len(chain) |->
                             [chain[i] EXCEPT !.hash = compute_hash(chain[i])]]
        /\ UNCHANGED <<difficulty, mining_times, nonce_counts, tampered, adds, mining>>

validate ==
    /\ ret' = [op |-> "is_chain_valid", val |-> is_chain_valid(chain, difficulty)]
    /\ UNCHANGED <<difficulty, chain, mining_times, nonce_counts, tampered, adds, mining>>

AddBlock == \E data \in Payloads, ts \in Timestamps, t \in Elapsed : add_block(data, ts, t)

TamperBlock == \E index \in -1..MaxChain, new_data \in Payloads : tamper_block(index, new_data)

Next == AddBlock \/ TamperBlock \/ validate

Spec == Init /\ [][Next]_vars

\* ------------------------------------------- mining, one trial at a time
\* Blockchain(difficulty) at the moment create_genesis_block calls
\* proof_of_work: nothing is in the chain yet
InitMine ==
    \E d \in (1..MaxDifficulty) \cup {HashLen + 1}, ts \in Timestamps :
        /\ difficulty = d
        /\ chain = <<>>
        /\ mining_times = <<>>
        /\ nonce_counts = <<>>
        /\ ret = [op |-> "Blockchain", val |-> "running"]
        /\ tampered = {}
        /\ adds = 0
        /\ mining = <<Block(0, ts, GenesisData, <<0>>)>>

\* add_block up to its call of proof_of_work
start_add(data, ts) ==
    /\ mining = <<>>
    /\ Len(chain) < MaxChain
    /\ LET prev == latest_block(chain)
       IN  mining' = <<Block(prev.index + 1, ts, data, prev.hash)>>
    /\ ret' = [op |-> "add_block", val |-> "running"]
    /\ UNCHANGED <<difficulty, chain, mining_times, nonce_counts, tampered, adds>>

\* mutant: the nonce advances by 2
pow_step_Step2(t) ==
    /\ mining # <<>>
    /\ LET block == mining[1]
           computed_hash == compute_hash(block)
       IN  IF startswith(computed_hash, Zeros(difficulty))
           THEN LET mined == [block EXCEPT !.hash = computed_hash]
                IN  /\ chain' = Append(chain, mined)
                    /\ mining_times' = Append(mining_times, t)
                    /\ nonce_counts' = Append(nonce_counts, mined.nonce)
                    /\ ret' = [op |-> ret.op, val |-> IF ret.op = "add_block" THEN mined ELSE "None"]
                    /\ adds' = IF ret.op = "add_block" THEN adds + 1 ELSE adds
                    /\ mining' = <<>>
                    /\ UNCHANGED <<difficulty, tampered>>
           ELSE /\ block.nonce < MaxNonce
                /\ mining' = <<[block EXCEPT !.nonce = @ + 2]>>
                /\ UNCHANGED <<difficulty, chain, mining_times, nonce_counts, ret, tampered, adds>>

\* one iteration of the loop of proof_of_work on the block in hand; on a
\* qualifying digest proof_of_work returns and its caller appends the block
\* and its statistics
pow_step(t) ==
    /\ mining # <<>>
    /\ LET block == mining[1]
           computed_hash == compute_hash(block)
       IN  IF startswith(computed_hash, Zeros(difficulty))
           THEN LET mined == [block EXCEPT !.hash = computed_hash]
                IN  /\ chain' = Append(chain, mined)
                    /\ mining_times' = Append(mining_times, t)
                    /\ nonce_counts' = Append(nonce_counts, mined.nonce)
                    /\ ret' = [op |-> ret.op, val |-> IF ret.op = "add_block" THEN mined ELSE "None"]
                    /\ adds' = IF ret.op = "add_block" THEN adds + 1 ELSE adds
                    /\ mining' = <<>>
                    /\ UNCHANGED <<difficulty, tampered>>
           ELSE /\ block.nonce < MaxNonce
                /\ mining' = <<[block EXCEPT !.nonce = @ + 1]>>
                /\ UNCHANGED <<difficulty, chain, mining_times, nonce_counts, ret, tampered, adds>>

StartAdd == \E data \in Payloads, ts \in Timestamps : start_add(data, ts)

PowStep == \E t \in Elapsed : pow_step(t)

NextMine == StartAdd \/ PowStep

\* the loop of proof_of_work keeps running while it has not returned
SpecMine == InitMine /\ [][NextMine]_vars /\ WF_vars(PowStep)

\* ------------------------------------------------- any chain contents
\* Block(index, timestamp, data, previous_hash, nonce, hash_val): the hash is
\* hash_val, or the digest of the fields when hash_val is empty
BlockWith(index, timestamp, data, previous_hash, nonce, hash_val) ==
    LET b == [index |-> index, timestamp |-> timestamp, data |-> data,
              previous_hash |-> previous_hash, nonce |-> nonce, hash |-> hash_val]
    IN  IF hash_val = <<>> THEN [b EXCEPT !.hash = compute_hash(b)] ELSE b

\* blocks a caller can build for block number index: linked to one of
\* links, holding the nonce and hash of a block mined or only constructed for
\* made_for, or a hash computed at construction, and carrying any of datas
AnyBlocks(index, links, made_for, datas, d) ==
    UNION {LET unmined == Block(index, 1, made_for, p)
               mined == proof_of_work(unmined, d).block
           IN  {BlockWith(index, 1, data, p, nh[1], nh[2]) :
                    data \in datas,
                    nh \in {<<mined.nonce, mined.hash>>,
                            <<0, unmined.hash>>,
                            <<mined.nonce, <<>>>>}} :
           p \in links}

RECURSIVE AnyChains(_, _)
\* the chains of n blocks a caller can put together
AnyChains(n, d) ==
    IF n = 1
    THEN {<<g>> : g \in AnyBlocks(0, {<<0>>}, GenesisData,
                                  {GenesisData, "This was hacked!"}, d)}
    ELSE UNION {{Append(c, b) :
                    b \in AnyBlocks(n - 1, {c[n - 1].hash, <<0>>},
                                    "Alice pays 5 BTC to Bob", Payloads, d)} :
                c \in AnyChains(n - 1, d)}

\* a Blockchain object whose chain list holds any such blocks
InitAny ==
    \E d \in 1..MaxDifficulty, n \in 1..MaxChain :
        /\ difficulty = d
        /\ chain \in AnyChains(n, d)
        /\ mining_times = [i \in 1..n |-> 0]
        /\ nonce_counts = [i \in 1..n |-> chain[i].nonce]
        /\ ret = [op |-> "Blockchain", val |-> "None"]
        /\ tampered = {}
        /\ adds = n - 1
        /\ mining = <<>>

SpecAny == InitAny /\ [][validate]_vars

\* ------------------------------------------------------------- properties
Success == Verdict(TRUE, NoBlock, "Chain is valid.")
HashTampering(i) == Verdict(FALSE, i, "Hash tampering detected.")
GenesisMismatch == Verdict(FALSE, NoBlock, "Genesis block hash mismatch.")

\* C1: on a chain built by the constructor and add_block calls only (no
\* tamper_block call), is_chain_valid returns (True, "Chain is valid.").
C1_UntamperedChainValid ==
    (ret.op = "is_chain_valid" /\ tampered = {}) => ret.val = Success

C1_Witness ==
    /\ ret.op = "is_chain_valid"
    /\ tampered = {}
    /\ Len(chain) >= 3
    /\ ret.val = Success

\* C2: on a chain no tamper_block has touched, tamper_block(i, new_data) with
\* a valid i and new_data different from the block's data makes is_chain_valid
\* fail: with the hash-tampering reason for block i when i >= 1, with the
\* genesis hash-mismatch reason when i = 0.
C2_TamperDetected ==
    [][\A i \in 0..(Len(chain) - 1), d \in Payloads :
          (tampered = {} /\ d # chain[i + 1].data /\ tamper_block(i, d))
          => is_chain_valid(chain', difficulty') =
                 IF i >= 1 THEN HashTampering(i) ELSE GenesisMismatch]_vars

C2_Witness ==
    /\ ret.op = "is_chain_valid"
    /\ tampered = {1}
    /\ Len(chain) >= 3
    /\ ret.val = HashTampering(1)

\* C3: every block tamper_block has never written to has a stored hash equal
\* to the digest of its stored fields.
C3_UntamperedHashConsistent ==
    \A i \in 1..Len(chain) :
        (i - 1) \notin tampered => compute_hash(chain[i]) = chain[i].hash

C3_Witness ==
    /\ Len(chain) >= 3
    /\ tampered = {1}
    /\ compute_hash(chain[2]) # chain[2].hash
    /\ compute_hash(chain[3]) = chain[3].hash
    /\ chain[3].nonce > 0

\* C4: in a chain without tampering, every block after the genesis has
\* previous_hash equal to the stored hash of its predecessor.
C4_LinkInvariant ==
    tampered = {} =>
        \A i \in 2..Len(chain) : chain[i].previous_hash = chain[i - 1].hash

C4_Witness ==
    /\ tampered = {}
    /\ Len(chain) >= 3
    /\ chain[3].previous_hash = chain[2].hash
    /\ chain[2].hash # chain[1].hash

Qualifies(b, n, d) == startswith(compute_hash([b EXCEPT !.nonce = n]), Zeros(d))

\* the block the last call mined: the genesis after the constructor, the
\* returned block after add_block
JustMined == ret.op \in {"Blockchain", "add_block"}

\* C5: when proof_of_work has returned for a block, the nonce stored in the
\* block and recorded in nonce_counts is the smallest non-negative n whose
\* digest starts with `difficulty` '0' characters.
C5_SmallestNonce ==
    JustMined =>
        LET b == chain[Len(chain)]
        IN  /\ nonce_counts[Len(chain)] = b.nonce
            /\ b.nonce >= 0
            /\ Qualifies(b, b.nonce, difficulty)
            /\ \A m \in 0..(b.nonce - 1) : ~Qualifies(b, m, difficulty)

C5_Witness ==
    /\ ret.op = "add_block"
    /\ chain[Len(chain)].nonce >= 2
    /\ nonce_counts[Len(chain)] = chain[Len(chain)].nonce
    /\ Len(chain) >= 3

\* C6: the stored hash of every block, genesis included, has '0' in each of
\* its first `difficulty` characters, whatever tamper_block has done.
C6_StoredHashMeetsDifficulty ==
    \A i \in 1..Len(chain) :
        /\ Len(chain[i].hash) >= difficulty
        /\ \A k \in 1..difficulty : chain[i].hash[k] = 0

C6_Witness ==
    /\ difficulty = 2
    /\ Len(chain) >= 2
    /\ tampered # {}
    /\ \A i \in 1..Len(chain) : chain[i].hash[1] = 0 /\ chain[i].hash[2] = 0

\* C7: tamper_block with a valid index changes the data field of that block
\* and nothing else.
C7_TamperFrame ==
    [][\A i \in 0..(Len(chain) - 1), d \in Payloads :
          tamper_block(i, d) =>
              /\ Len(chain') = Len(chain)
              /\ \A k \in 1..Len(chain) : k # i + 1 => chain'[k] = chain[k]
              /\ chain'[i + 1] = [chain[i + 1] EXCEPT !.data = d]
              /\ difficulty' = difficulty
              /\ mining_times' = mining_times
              /\ nonce_counts' = nonce_counts]_vars

C7_Witness ==
    /\ ret = [op |-> "tamper_block", val |-> "None"]
    /\ Len(chain) >= 3
    /\ tampered = {1}
    /\ compute_hash(chain[2]) # chain[2].hash

\* C8: tamper_block with an index below 0 or at least the chain length raises
\* IndexError and leaves blocks, mining_times and nonce_counts as they were.
C8_TamperOutOfRange ==
    [][\A i \in -1..MaxChain, d \in Payloads :
          ((i < 0 \/ i >= Len(chain)) /\ tamper_block(i, d)) =>
              /\ ret'.val = "IndexError"
              /\ chain' = chain
              /\ difficulty' = difficulty
              /\ mining_times' = mining_times
              /\ nonce_counts' = nonce_counts]_vars

C8_Witness ==
    /\ ret = [op |-> "tamper_block", val |-> "IndexError"]
    /\ Len(chain) >= 2
    /\ tampered = {}

\* C9: the chain length is 1 + the number of add_block calls, and the block
\* add_block returns is the new last block, numbered one more than the
\* previous last block, linked to its stored hash and carrying the given data.
C9_AddBlockAppends ==
    /\ [](Len(chain) = 1 + adds)
    /\ [][\A data \in Payloads, ts \in Timestamps, t \in Elapsed :
            add_block(data, ts, t) =>
                /\ Len(chain') = Len(chain) + 1
                /\ SubSeq(chain', 1, Len(chain)) = chain
                /\ ret'.val = chain'[Len(chain')]
                /\ ret'.val.index = chain[Len(chain)].index + 1
                /\ ret'.val.previous_hash = chain[Len(chain)].hash
                /\ ret'.val.data = data]_vars

C9_Witness ==
    /\ ret.op = "add_block"
    /\ adds = 2
    /\ Len(chain) = 3
    /\ ret.val = chain[3]
    /\ 0 \in tampered

\* some add_block call on the current chain gets its block mined
MiningReturns ==
    \E data \in Payloads, ts \in Timestamps :
        LET last == chain[Len(chain)]
        IN  proof_of_work(Block(last.index + 1, ts, data, last.hash), difficulty).found

\* C10: is_chain_valid returns a verdict in every state and changes no field
\* of the chain; after a failure verdict the chain still has its genesis
\* block (what add_block and is_chain_valid read), and tamper_block and
\* is_chain_valid can be called again.
C10_ValidationReadOnly ==
    /\ [][validate =>
            /\ ret'.val.ok \in BOOLEAN
            /\ chain' = chain
            /\ difficulty' = difficulty
            /\ mining_times' = mining_times
            /\ nonce_counts' = nonce_counts]_vars
    /\ []((ret.op = "is_chain_valid" /\ ~ret.val.ok) =>
            /\ Len(chain) >= 1
            /\ ENABLED validate
            /\ ENABLED TamperBlock)

C10_Witness ==
    /\ ret.op = "is_chain_valid"
    /\ ~ret.val.ok
    /\ Len(chain) < MaxChain
    /\ MiningReturns
    /\ tampered # {}

\* the fields of a block that no operation rewrites once it is in the chain
Mined(b) == <<b.index, b.timestamp, b.previous_hash, b.nonce, b.hash>>

\* C11: across every transition the chain never gets shorter, blocks keep
\* their positions and their index, timestamp, previous_hash, nonce and hash;
\* data changes only in a tamper_block step.
C11_AppendOnlyImmutable ==
    [][/\ Len(chain') >= Len(chain)
       /\ \A i \in 1..Len(chain) :
             /\ Mined(chain'[i]) = Mined(chain[i])
             /\ chain'[i].data # chain[i].data =>
                    /\ ret'.op = "tamper_block"
                    /\ (i - 1) \in tampered']_vars

C11_Witness ==
    /\ Len(chain) >= 3
    /\ tampered = {0, 2}
    /\ ret.op = "is_chain_valid"
    /\ ~ret.val.ok
    /\ chain[1].data # GenesisData

\* C12: mining_times and nonce_counts have the length of the chain, and
\* nonce_counts[i] is the nonce stored in the block at position i.
C12_ParallelStats ==
    /\ Len(mining_times) = Len(chain)
    /\ Len(nonce_counts) = Len(chain)
    /\ \A i \in 1..Len(chain) : nonce_counts[i] = chain[i].nonce

C12_Witness ==
    /\ Len(chain) >= 3
    /\ Len(nonce_counts) = 3
    /\ Len(mining_times) = 3
    /\ nonce_counts[2] # nonce_counts[3]
    /\ tampered # {}

\* C13: mining the block the last call mined again, from any nonce and hash
\* it might have held before, ends with the same nonce and the same hash:
\* the result depends on index, timestamp, data, previous_hash and
\* difficulty only.
C13_MiningDeterministic ==
    JustMined =>
        LET b == chain[Len(chain)]
        IN  \A n0 \in {0, 1, b.nonce + 1, MaxNonce}, h0 \in {<<>>, Zeros(HashLen), b.hash} :
                LET again == proof_of_work([b EXCEPT !.nonce = n0, !.hash = h0], difficulty)
                IN  /\ again.found
                    /\ again.nonce = b.nonce
                    /\ again.block.nonce = b.nonce
                    /\ again.block.hash = b.hash

C13_Witness ==
    /\ ret.op = "add_block"
    /\ Len(chain) >= 3
    /\ chain[3].nonce >= 2
    /\ chain[3].hash # Zeros(HashLen)
    /\ difficulty = 2

RECURSIVE LeadingZeros(_)
\* the number of '0' characters a hex string starts with
LeadingZeros(s) ==
    IF Len(s) = 0 \/ s[1] # 0 THEN 0 ELSE 1 + LeadingZeros(Tail(s))

\* C14 as stated: every stored hash has '0' in its first `difficulty`
\* characters and a character other than '0' right after them.
C14_ExactlyDifficultyZeros ==
    \A i \in 1..Len(chain) :
        /\ startswith(chain[i].hash, Zeros(difficulty))
        /\ difficulty < Len(chain[i].hash) => chain[i].hash[difficulty + 1] # 0

\* C14, amended: every mined block's stored hash begins with at least
\* `difficulty` '0' characters; the character after them may be '0' too.
C14_AtLeastDifficultyZeros ==
    \A i \in 1..Len(chain) : LeadingZeros(chain[i].hash) >= difficulty

C14_Witness ==
    /\ ret.op = "add_block"
    /\ compute_hash(ret.val) = ret.val.hash
    /\ LeadingZeros(ret.val.hash) > difficulty

\* the three checks of block number i - 1 (position i), stated on the chain
FailsLink(i) == i >= 2 /\ chain[i].previous_hash # chain[i - 1].hash
FailsHash(i) == compute_hash(chain[i]) # chain[i].hash
FailsDifficulty(i) ==
    \E k \in 1..difficulty : k > Len(chain[i].hash) \/ chain[i].hash[k] # 0
Fails(i) == FailsLink(i) \/ FailsHash(i) \/ FailsDifficulty(i)

FirstReason(i) ==
    IF FailsLink(i) THEN "previous_hash does not match (chain broken)."
    ELSE IF FailsHash(i) THEN "Hash tampering detected."
    ELSE "Difficulty rule violated."

\* C15: whatever the blocks hold, a failure verdict names the lowest-numbered
\* block i >= 1 that fails a check, with the first failing check in the order
\* link, hash consistency, difficulty; the genesis block is blamed only when
\* every later block passes all three, and success is returned only when
\* the genesis block passes too.
C15_FirstViolationReported ==
    ret.op = "is_chain_valid" =>
        LET bad == {i \in 2..Len(chain) : Fails(i)}
        IN  IF bad # {}
            THEN LET j == CHOOSE i \in bad : \A k \in bad : i <= k
                 IN  ret.val = Verdict(FALSE, j - 1, FirstReason(j))
            ELSE /\ ret.val.block = NoBlock
                 /\ ret.val.ok = (~FailsHash(1) /\ ~FailsDifficulty(1))
                 /\ ret.val.msg \in
                        IF FailsHash(1) \/ FailsDifficulty(1)
                        THEN {"Genesis block does not meet difficulty.",
                              "Genesis block hash mismatch."}
                        ELSE {"Chain is valid."}

C15_Witness ==
    /\ ret.op = "is_chain_valid"
    /\ Len(chain) >= 3
    /\ ~Fails(2)
    /\ FailsLink(3) /\ FailsHash(3) /\ FailsDifficulty(3)
    /\ FailsHash(1)
    /\ ret.val = Verdict(FALSE, 2, "previous_hash does not match (chain broken).")

\* some nonce the search has still to try, up to MaxNonce, qualifies
SomeNonceQualifies ==
    \E n \in mining[1].nonce..MaxNonce : Qualifies(mining[1], n, difficulty)

\* C16: a search for which some nonce qualifies returns, and it returns at
\* the first qualifying nonce, with the block appended; a search for which
\* no nonce qualifies stays in its loop and its block is never appended.
C16_MiningTermination ==
    /\ (mining # <<>> /\ SomeNonceQualifies) ~> (mining = <<>>)
    /\ [][(mining # <<>> /\ mining' = <<>>) =>
            LET b == mining[1]
                new == chain'[Len(chain')]
            IN  /\ chain' = Append(chain, new)
                /\ [new EXCEPT !.nonce = 0, !.hash = <<>>] = [b EXCEPT !.nonce = 0, !.hash = <<>>]
                /\ Qualifies(b, new.nonce, difficulty)
                /\ new.hash = compute_hash(new)
                /\ \A m \in 0..(new.nonce - 1) : ~Qualifies(b, m, difficulty)]_vars
    /\ [][(mining # <<>> /\ ~SomeNonceQualifies) =>
            (mining' # <<>> /\ chain' = chain)]_vars

C16_Witness ==
    /\ mining = <<>>
    /\ Len(chain) >= 2
    /\ ret.op = "add_block"
    /\ ret.val = chain[Len(chain)]
    /\ chain[Len(chain)].nonce >= 2

\* C17: on chains made by the constructor, add_block and tamper_block,
\* is_chain_valid returns success, the hash-tampering reason for a block
\* i >= 1 or the genesis hash-mismatch reason, and no other reason.
C17_OnlyHashReasons ==
    LET v == is_chain_valid(chain, difficulty)
    IN  /\ v \in {Success, GenesisMismatch} \cup {HashTampering(i) : i \in 1..(Len(chain) - 1)}
        /\ ret.op = "is_chain_valid" => ret.val = v

C17_Witness ==
    /\ ret.op = "is_chain_valid"
    /\ Len(chain) >= 3
    /\ tampered = {0, 1, 2}
    /\ \A i \in 1..3 : compute_hash(chain[i]) # chain[i].hash
    /\ ret.val = HashTampering(1)

\* C18: an add_block call on a chain that fails validation leaves a chain
\* that fails validation with the same verdict, naming the same block.
C18_AddBlockKeepsFailure ==
    [][\A data \in Payloads, ts \in Timestamps, t \in Elapsed :
          (~is_chain_valid(chain, difficulty).ok /\ add_block(data, ts, t)) =>
              /\ ~is_chain_valid(chain', difficulty').ok
              /\ is_chain_valid(chain', difficulty') = is_chain_valid(chain, difficulty)]_vars

C18_Witness ==
    /\ ret.op = "add_block"
    /\ Len(chain) >= 3
    /\ tampered = {1}
    /\ compute_hash(chain[2]) # chain[2].hash
    /\ chain[3].previous_hash = chain[2].hash
    /\ chain[3].previous_hash # compute_hash(chain[2])
    /\ is_chain_valid(chain, difficulty) = HashTampering(1)

\* C19: the chain is never empty, its first block is the genesis block with
\* previous_hash "0", and the block at every position i has index i.
C19_GenesisAndIndices ==
    /\ Len(chain) >= 1
    /\ chain[1].previous_hash = <<0>>
    /\ \A i \in 1..Len(chain) : chain[i].index = i - 1

C19_Witness ==
    /\ Len(chain) >= 3
    /\ tampered = {0}
    /\ chain[1].data # GenesisData
    /\ chain[3].index = 2

====
